---- MODULE Spec2Model ----
(***************************************************************************)
(* A model of axum-httpbin (src/main.rs): the echo handlers, the request   *)
(* snapshot (CommonRequestParts), the header multimap serialization        *)
(* (MyHeaderMap), the body decoders and the auth handlers, served one task *)
(* per connection.                                                         *)
(***************************************************************************)
EXTENDS Integers, Sequences, FiniteSets, TLC

VARIABLES conn, listening, memo

vars == <<conn, listening, memo>>

(***************************************************************************)
(* Bounds of the model.                                                    *)
(***************************************************************************)
MaxHeaderLines == 3
MaxParts == 2
MaxQueryPairs == 2

(***************************************************************************)
(* Option<T>, and the outcome of a computation that may panic.             *)
(***************************************************************************)
None == [some |-> FALSE]
Some(x) == [some |-> TRUE, val |-> x]

Panic == [panicked |-> TRUE]
Ok(x) == [panicked |-> FALSE, val |-> x]

(***************************************************************************)
(* JSON documents as they are written: an object is the sequence of its    *)
(* <<key, value>> entries in emission order, so that a key emitted twice   *)
(* is two entries.                                                         *)
(***************************************************************************)
JNull == [t |-> "null"]
JBool(b) == [t |-> "bool", v |-> b]
JNum(n) == [t |-> "num", v |-> n]
JStr(s) == [t |-> "str", v |-> s]
JArr(s) == [t |-> "arr", v |-> s]
JObj(entries) == [t |-> "obj", v |-> entries]

Keys(doc) == {doc.v[i][1] : i \in 1..Len(doc.v)}
Field(doc, k) == doc.v[CHOOSE i \in 1..Len(doc.v) : doc.v[i][1] = k][2]

RECURSIVE SeqsUpTo(_, _)
SeqsUpTo(S, n) ==
  IF n = 0 THEN {<<>>}
  ELSE LET shorter == SeqsUpTo(S, n - 1)
       IN  shorter \cup {Append(s, x) : s \in {t \in shorter : Len(t) = n - 1}, x \in S}

(***************************************************************************)
(* std::collections::HashMap<String, String>: a finite map; insert         *)
(* replaces the value of a key already present.  Its iteration order       *)
(* depends on the hasher's per-map random keys: any order of the keys.     *)
(***************************************************************************)
EmptyMap == [k \in {} |-> ""]
HashMap_insert(m, k, v) == [x \in DOMAIN m \cup {k} |-> IF x = k THEN v ELSE m[x]]

RECURSIVE HashMap_from_pairs(_)
HashMap_from_pairs(pairs) ==
  IF pairs = <<>> THEN EmptyMap
  ELSE LET n == Len(pairs)
       IN  HashMap_insert(HashMap_from_pairs(SubSeq(pairs, 1, n - 1)), pairs[n][1], pairs[n][2])

HashMap_iter_orders(m) ==
  {s \in [1..Cardinality(DOMAIN m) -> DOMAIN m] : \A i, j \in DOMAIN s : i # j => s[i] # s[j]}

HashMap_serialize(m, order) == JObj([i \in DOMAIN order |-> <<order[i], JStr(m[order[i]])>>])

(***************************************************************************)
(* http::HeaderMap: a multimap; entries in order of first insertion of     *)
(* each name, every entry holding its values in arrival order.             *)
(***************************************************************************)
HeaderMap_new == <<>>
HeaderMap_contains(map, n) == \E i \in 1..Len(map) : map[i].name = n
HeaderMap_append(map, n, v) ==
  IF HeaderMap_contains(map, n)
  THEN [i \in 1..Len(map) |->
          IF map[i].name = n THEN [map[i] EXCEPT !.values = Append(@, v)] ELSE map[i]]
  ELSE Append(map, [name |-> n, values |-> <<v>>])

RECURSIVE HeaderMap_from_lines(_)
HeaderMap_from_lines(lines) ==
  IF lines = <<>> THEN HeaderMap_new
  ELSE LET n == Len(lines)
       IN  HeaderMap_append(HeaderMap_from_lines(SubSeq(lines, 1, n - 1)),
                            lines[n].name, lines[n].value)

HeaderMap_get(map, n) ==
  IF HeaderMap_contains(map, n)
  THEN Some((map[CHOOSE i \in 1..Len(map) : map[i].name = n]).values[1])
  ELSE None

\* IntoIter: Some(name) with the first value of a name, None with each further one.
RECURSIVE HeaderMap_into_iter(_)
HeaderMap_into_iter(map) ==
  IF map = <<>> THEN <<>>
  ELSE LET e == Head(map)
       IN  [i \in 1..Len(e.values) |->
              [k |-> IF i = 1 THEN Some(e.name) ELSE None, v |-> e.values[i]]]
           \o HeaderMap_into_iter(Tail(map))

(***************************************************************************)
(* HeaderValue::to_str: the text of the value when every byte is visible   *)
(* ASCII (or a tab), an error otherwise.  Header values are byte strings.  *)
(***************************************************************************)
IsVisibleAscii(bytes) == \A i \in 1..Len(bytes) : bytes[i] = 9 \/ (bytes[i] >= 32 /\ bytes[i] < 127)
HeaderValue_to_str(v) == IF IsVisibleAscii(v) THEN Some(v) ELSE None

(***************************************************************************)
(* impl Serialize for MyHeaderMap: the loop over the iterator, with        *)
(* prev_header overwritten by k at the end of every iteration.             *)
(***************************************************************************)
RECURSIVE serialize_loop(_, _, _)
serialize_loop(iter, prev_header, seq) ==
  IF iter = <<>> THEN Ok(JObj(seq))
  ELSE LET k == Head(iter).k
           v == Head(iter).v
           key_to_use == IF k.some THEN k ELSE prev_header
           text == HeaderValue_to_str(v)
       IN  IF ~key_to_use.some THEN Panic
           ELSE IF ~text.some THEN Panic
           ELSE serialize_loop(Tail(iter), k, Append(seq, <<key_to_use.val, JStr(text.val)>>))

MyHeaderMap_serialize(map) == serialize_loop(HeaderMap_into_iter(map), None, <<>>)

(***************************************************************************)
(* String::from_utf8: the bytes are text exactly when they are well-formed *)
(* UTF-8 (1 to 4 byte forms, no overlong forms, no surrogates).            *)
(***************************************************************************)
IsCont(b) == b >= 128 /\ b <= 191

RECURSIVE ValidUtf8(_)
ValidUtf8(bs) ==
  IF bs = <<>> THEN TRUE
  ELSE LET b == Head(bs)
           n == Len(bs)
       IN  IF b < 128 THEN ValidUtf8(Tail(bs))
           ELSE IF b >= 194 /\ b <= 223
                THEN n >= 2 /\ IsCont(bs[2]) /\ ValidUtf8(SubSeq(bs, 3, n))
           ELSE IF b >= 224 /\ b <= 239
                THEN /\ n >= 3 /\ IsCont(bs[2]) /\ IsCont(bs[3])
                     /\ (b = 224 => bs[2] >= 160)
                     /\ (b = 237 => bs[2] <= 159)
                     /\ ValidUtf8(SubSeq(bs, 4, n))
           ELSE IF b >= 240 /\ b <= 244
                THEN /\ n >= 4 /\ IsCont(bs[2]) /\ IsCont(bs[3]) /\ IsCont(bs[4])
                     /\ (b = 240 => bs[2] >= 144)
                     /\ (b = 244 => bs[2] <= 143)
                     /\ ValidUtf8(SubSeq(bs, 5, n))
           ELSE FALSE

String_from_utf8(bs) == IF ValidUtf8(bs) THEN Some(bs) ELSE None

\* str::split_once: the text before and after the first occurrence of a byte.
IndexOf(bs, x) ==
  IF \E i \in 1..Len(bs) : bs[i] = x
  THEN CHOOSE i \in 1..Len(bs) : bs[i] = x /\ \A j \in 1..(i - 1) : bs[j] # x
  ELSE 0
split_once(bs, x) ==
  LET i == IndexOf(bs, x)
  IN  IF i = 0 THEN None
      ELSE Some([before |-> SubSeq(bs, 1, i - 1), after |-> SubSeq(bs, i + 1, Len(bs))])

(***************************************************************************)
(* Standard base64, as the Basic scheme carries "id:password".             *)
(***************************************************************************)
IsB64(c) ==
  \/ (c >= 65 /\ c <= 90) \/ (c >= 97 /\ c <= 122) \/ (c >= 48 /\ c <= 57)
  \/ c = 43 \/ c = 47
B64Val(c) ==
  IF c >= 65 /\ c <= 90 THEN c - 65
  ELSE IF c >= 97 /\ c <= 122 THEN c - 71
  ELSE IF c >= 48 /\ c <= 57 THEN c + 4
  ELSE IF c = 43 THEN 62 ELSE 63

RECURSIVE base64_decode(_)
base64_decode(cs) ==
  IF cs = <<>> THEN Some(<<>>)
  ELSE IF Len(cs) < 4 \/ ~IsB64(cs[1]) \/ ~IsB64(cs[2]) THEN None
  ELSE LET last == Len(cs) = 4
           pad2 == last /\ cs[3] = 61 /\ cs[4] = 61
           pad1 == last /\ cs[3] # 61 /\ cs[4] = 61
           v3 == IF pad2 THEN 0 ELSE B64Val(cs[3])
           v4 == IF pad1 \/ pad2 THEN 0 ELSE B64Val(cs[4])
           n == B64Val(cs[1]) * 262144 + B64Val(cs[2]) * 4096 + v3 * 64 + v4
           b1 == n \div 65536
           b2 == (n \div 256) % 256
           b3 == n % 256
           rest == base64_decode(SubSeq(cs, 5, Len(cs)))
       IN  IF ~pad2 /\ ~IsB64(cs[3]) THEN None
           ELSE IF ~pad1 /\ ~pad2 /\ ~IsB64(cs[4]) THEN None
           ELSE IF ~rest.some THEN None
           ELSE Some((IF pad2 THEN <<b1>> ELSE IF pad1 THEN <<b1, b2>> ELSE <<b1, b2, b3>>)
                     \o rest.val)

(***************************************************************************)
(* serde_json: Value, the parser (from_slice) over the tokens of the body  *)
(* text, and the compact writer (to_string).  An object Value is a sorted  *)
(* map: its entries are kept in key order and an inserted key replaces an  *)
(* equal one.                                                              *)
(***************************************************************************)
KeyOrder == <<"x", "y">>
KeyRank(k) == CHOOSE i \in 1..Len(KeyOrder) : KeyOrder[i] = k

StringTokens == {"\"x\"", "\"y\""}
StringOf(tok) == IF tok = "\"x\"" THEN "x" ELSE "y"
StringToken(s) == IF s = "x" THEN "\"x\"" ELSE "\"y\""
LiteralTokens == {"null", "true", "false", "1", "2"}
LiteralOf(tok) ==
  CASE tok = "null" -> JNull
    [] tok = "true" -> JBool(TRUE)
    [] tok = "false" -> JBool(FALSE)
    [] tok = "1" -> JNum(1)
    [] tok = "2" -> JNum(2)
NumberToken(n) == IF n = 1 THEN "1" ELSE "2"

Map_insert(entries, k, v) ==
  IF \E i \in 1..Len(entries) : entries[i][1] = k
  THEN [i \in 1..Len(entries) |-> IF entries[i][1] = k THEN <<k, v>> ELSE entries[i]]
  ELSE LET below == SelectSeq(entries, LAMBDA e : KeyRank(e[1]) < KeyRank(k))
           above == SelectSeq(entries, LAMBDA e : KeyRank(e[1]) > KeyRank(k))
       IN  below \o <<<<k, v>>>> \o above

ParseFail == [ok |-> FALSE]
Parsed(v, next) == [ok |-> TRUE, val |-> v, next |-> next]
Tok(toks, i) == IF i <= Len(toks) THEN toks[i] ELSE "EOF"

RECURSIVE SkipWs(_, _)
SkipWs(toks, i) == IF Tok(toks, i) = " " THEN SkipWs(toks, i + 1) ELSE i

RECURSIVE parse_value(_, _), parse_elements(_, _, _), parse_members(_, _, _)
parse_value(toks, i) ==
  LET j == SkipWs(toks, i)
      t == Tok(toks, j)
  IN  IF t \in LiteralTokens THEN Parsed(LiteralOf(t), j + 1)
      ELSE IF t \in StringTokens THEN Parsed(JStr(StringOf(t)), j + 1)
      ELSE IF t = "["
           THEN LET j2 == SkipWs(toks, j + 1)
                IN  IF Tok(toks, j2) = "]" THEN Parsed(JArr(<<>>), j2 + 1)
                    ELSE parse_elements(toks, j2, <<>>)
      ELSE IF t = "{"
           THEN LET j2 == SkipWs(toks, j + 1)
                IN  IF Tok(toks, j2) = "}" THEN Parsed(JObj(<<>>), j2 + 1)
                    ELSE parse_members(toks, j2, <<>>)
      ELSE ParseFail

parse_elements(toks, i, acc) ==
  LET r == parse_value(toks, i)
  IN  IF ~r.ok THEN ParseFail
      ELSE LET j == SkipWs(toks, r.next)
               t == Tok(toks, j)
           IN  IF t = "," THEN parse_elements(toks, j + 1, Append(acc, r.val))
               ELSE IF t = "]" THEN Parsed(JArr(Append(acc, r.val)), j + 1)
               ELSE ParseFail

parse_members(toks, i, acc) ==
  LET j == SkipWs(toks, i)
      k == Tok(toks, j)
      c == SkipWs(toks, j + 1)
  IN  IF k \notin StringTokens \/ Tok(toks, c) # ":" THEN ParseFail
      ELSE LET r == parse_value(toks, c + 1)
           IN  IF ~r.ok THEN ParseFail
               ELSE LET e == SkipWs(toks, r.next)
                        t == Tok(toks, e)
                        map == Map_insert(acc, StringOf(k), r.val)
                    IN  IF t = "," THEN parse_members(toks, e + 1, map)
                        ELSE IF t = "}" THEN Parsed(JObj(map), e + 1)
                        ELSE ParseFail

\* serde_json::from_slice: one value, then nothing but whitespace.
from_slice(toks) ==
  LET r == parse_value(toks, 1)
  IN  IF r.ok /\ SkipWs(toks, r.next) = Len(toks) + 1 THEN Some(r.val) ELSE None

RECURSIVE to_string(_), write_elements(_), write_members(_)
to_string(val) ==
  CASE val.t = "null" -> <<"null">>
    [] val.t = "bool" -> <<IF val.v THEN "true" ELSE "false">>
    [] val.t = "num" -> <<NumberToken(val.v)>>
    [] val.t = "str" -> <<StringToken(val.v)>>
    [] val.t = "arr" -> <<"[">> \o write_elements(val.v) \o <<"]">>
    [] val.t = "obj" -> <<"{">> \o write_members(val.v) \o <<"}">>

write_elements(vs) ==
  IF vs = <<>> THEN <<>>
  ELSE to_string(Head(vs)) \o (IF Len(vs) > 1 THEN <<",">> ELSE <<>>) \o write_elements(Tail(vs))

write_members(es) ==
  IF es = <<>> THEN <<>>
  ELSE <<StringToken(Head(es)[1]), ":">> \o to_string(Head(es)[2])
       \o (IF Len(es) > 1 THEN <<",">> ELSE <<>>) \o write_members(Tail(es))

(***************************************************************************)
(* Requests as the server receives them.  A header line is a name (the     *)
(* http crate holds names in lower case) and a value of bytes; the query   *)
(* is the sequence of its percent-decoded key/value pairs; the body is     *)
(* JSON text (tokens), form pairs, or a multipart stream: its parts, and   *)
(* whether the stream breaks off after them.                               *)
(***************************************************************************)
\* Basic dXNlcjpwYXNzd2Q=   (user:passwd)
BasicUserPasswd ==
  <<66, 97, 115, 105, 99, 32, 100, 88, 78, 108, 99, 106, 112, 119, 89, 88, 78, 122, 100, 50, 81, 61>>
\* Basic dXNlcjp3cm9uZw==   (user:wrong)
BasicUserWrong ==
  <<66, 97, 115, 105, 99, 32, 100, 88, 78, 108, 99, 106, 112, 51, 99, 109, 57, 117, 90, 119, 61, 61>>
\* Basic YWxpY2U6cGFzc3dk   (alice:passwd)
BasicAlicePasswd ==
  <<66, 97, 115, 105, 99, 32, 89, 87, 120, 112, 89, 50, 85, 54, 99, 71, 70, 122, 99, 51, 100, 107>>
\* Basic dXNlcg==           (user, no colon)
BasicUserOnly ==
  <<66, 97, 115, 105, 99, 32, 100, 88, 78, 108, 99, 103, 61, 61>>
\* Bearer abc123
BearerAbc123 ==
  <<66, 101, 97, 114, 101, 114, 32, 97, 98, 99, 49, 50, 51>>
\* Bearer
BearerEmpty ==
  <<66, 101, 97, 114, 101, 114>>
\* application/json
ApplicationJson ==
  <<97, 112, 112, 108, 105, 99, 97, 116, 105, 111, 110, 47, 106, 115, 111, 110>>
\* multipart/form-data
MultipartFormData ==
  <<109, 117, 108, 116, 105, 112, 97, 114, 116, 47, 102, 111, 114, 109, 45, 100, 97, 116, 97>>
\* application/x-www-form-urlencoded
FormUrlencoded ==
  <<97, 112, 112, 108, 105, 99, 97, 116, 105, 111, 110, 47, 120, 45, 119, 119, 119, 45, 102,
    111, 114, 109, 45, 117, 114, 108, 101, 110, 99, 111, 100, 101, 100>>
\* passwd
Passwd == <<112, 97, 115, 115, 119, 100>>
\* Basic realm="Fake Realm"
FakeRealm ==
  <<66, 97, 115, 105, 99, 32, 114, 101, 97, 108, 109, 61, 34, 70, 97, 107, 101, 32, 82, 101,
    97, 108, 109, 34>>
\* Basic, Bearer
BasicScheme == <<66, 97, 115, 105, 99>>
BearerScheme == <<66, 101, 97, 114, 101, 114>>

NoBody == [kind |-> "none", toks |-> <<>>, pairs |-> <<>>, parts |-> <<>>, broken |-> FALSE]
JsonText(toks) == [NoBody EXCEPT !.kind = "text", !.toks = toks]
FormBody(pairs) == [NoBody EXCEPT !.kind = "form", !.pairs = pairs]
MultipartBody(parts, broken) ==
  [NoBody EXCEPT !.kind = "multipart", !.parts = parts, !.broken = broken]

\* main: the routes of the Router.
Routes ==
  { [method |-> "GET", path |-> "/get", handler |-> "basic_method_handler"],
    [method |-> "POST", path |-> "/post", handler |-> "basic_method_handler"],
    [method |-> "DELETE", path |-> "/delete", handler |-> "basic_method_handler"],
    [method |-> "PUT", path |-> "/put", handler |-> "basic_method_handler"],
    [method |-> "PATCH", path |-> "/patch", handler |-> "basic_method_handler"],
    [method |-> "POST", path |-> "/post/json", handler |-> "post_json_handler"],
    [method |-> "POST", path |-> "/post/form", handler |-> "form_handler"],
    [method |-> "POST", path |-> "/post/file", handler |-> "post_file_handler"],
    [method |-> "GET", path |-> "/basic-auth/user/passwd", handler |-> "get_basic_auth_handler"],
    [method |-> "GET", path |-> "/bearer", handler |-> "get_bearer_auth_handler"] }

HandlerOf(req) == (CHOOSE r \in Routes : r.method = req.method /\ r.path = req.path).handler

(***************************************************************************)
(* The requests a specification draws from: U gives the names and values   *)
(* of the header lines, the query pairs, the JSON texts and the parts.     *)
(***************************************************************************)
JsonTexts ==
  { <<"{", "\"x\"", ":", "1", "}">>,
    <<"{", " ", "\"x\"", " ", ":", " ", "1", " ", "}">>,
    <<"{", "\"y\"", ":", "2", ",", "\"x\"", ":", "1", "}">>,
    <<"{", "\"x\"", ":", "1", ",", "\"x\"", ":", "2", "}">>,
    <<"[", "1", ",", "true", ",", "null", "]">>,
    <<"{", "\"x\"", ":", "[", "\"y\"", "]", "}">>,
    <<"{", "\"x\"", ":">>,
    <<"[", "1", ",", "]">>,
    <<"{", "\"x\"", ":", "1", "}", "}">>,
    <<"{", "x", ":", "1", "}">> }

AuthLine(v) == <<[name |-> "authorization", value |-> v]>>
TypeLine(v) == <<[name |-> "content-type", value |-> v]>>

RouteInputs(handler, U) ==
  CASE handler = "basic_method_handler" -> {[lines |-> <<>>, body |-> NoBody]}
    [] handler = "post_json_handler" ->
         {[lines |-> <<>>, body |-> NoBody], [lines |-> TypeLine(ApplicationJson), body |-> NoBody]}
         \cup {[lines |-> t, body |-> JsonText(b)] :
                 t \in {TypeLine(ApplicationJson)} \cup U.otherTypes, b \in U.texts}
    [] handler = "form_handler" ->
         {[lines |-> t, body |-> FormBody(q)] :
            t \in {TypeLine(FormUrlencoded)} \cup U.otherTypes, q \in U.forms}
    [] handler = "post_file_handler" ->
         {[lines |-> t, body |-> MultipartBody(ps, br)] :
            t \in {TypeLine(MultipartFormData)} \cup U.otherTypes,
            ps \in SeqsUpTo(U.parts, U.maxParts), br \in U.broken}
    [] handler = "get_basic_auth_handler" ->
         {[lines |-> a, body |-> NoBody] :
            a \in {<<>>} \cup {AuthLine(v) : v \in U.basic \cup {BearerAbc123}}}
    [] handler = "get_bearer_auth_handler" ->
         {[lines |-> a, body |-> NoBody] :
            a \in {<<>>} \cup {AuthLine(v) : v \in {BearerAbc123, BearerEmpty, BasicUserPasswd}}}

Request(r, q, h, i) ==
  [ method |-> r.method, path |-> r.path, query |-> q, lines |-> h \o i.lines,
    origin |-> "127.0.0.1", body |-> i.body ]

HeaderLists(U) == SeqsUpTo([name : U.names, value : U.values], MaxHeaderLines)

Parts == [name : {Some("file"), Some("doc"), None}, bytes : {<<97, 98, 99>>, <<195, 40>>}]

\* Every case of every input.
Wide ==
  [ names |-> {"accept", "cookie"}, values |-> {<<97>>, <<233>>},
    queries |-> SeqsUpTo({<<"k", "v">>, <<"k", "w">>, <<"k2", "v">>}, MaxQueryPairs),
    texts |-> JsonTexts, otherTypes |-> {<<>>},
    forms |-> {<<<<"k", "v">>, <<"k2", "v2">>>>, <<<<"k", "v">>, <<"k", "w">>>>},
    parts |-> Parts, maxParts |-> MaxParts, broken |-> BOOLEAN,
    basic |-> {BasicUserPasswd, BasicUserWrong, BasicAlicePasswd, BasicUserOnly} ]

\* One case of every outcome, for the specifications that hold several requests.
Narrow ==
  [ names |-> {"cookie"}, values |-> {<<97>>},
    queries |-> {<<<<"k", "v">>, <<"k2", "v">>>>},
    texts |-> {<<"{", "\"x\"", ":", "1", "}">>, <<"{", "\"x\"", ":">>}, otherTypes |-> {},
    forms |-> {<<<<"k", "v">>, <<"k2", "v2">>>>},
    parts |-> {[name |-> Some("file"), bytes |-> <<97, 98, 99>>],
               [name |-> Some("file"), bytes |-> <<195, 40>>]},
    maxParts |-> 1, broken |-> {FALSE},
    basic |-> {BasicUserPasswd, BasicUserWrong, BasicUserOnly} ]

(***************************************************************************)
(* Responses.  A task that panics sends none: its connection is dropped.   *)
(***************************************************************************)
Response(status, headers, body) ==
  [sent |-> TRUE, status |-> status, headers |-> headers, body |-> body]
NoResponse == [sent |-> FALSE]
Text(s) == [t |-> "text", v |-> s]

Rejected(resp) == [rejected |-> TRUE, resp |-> resp]
Extracted(x) == [rejected |-> FALSE, val |-> x]

(***************************************************************************)
(* CommonRequestParts::new and from_request_parts: Method, Query, the      *)
(* HeaderMap, OriginalUri and ConnectInfo; none of the five rejects a      *)
(* request that has reached a route of this Router.                        *)
(***************************************************************************)
CommonRequestParts_new(addr, url, method, headers, params) ==
  [ method |-> method, args |-> params, headers |-> headers, url |-> url, origin |-> addr ]

from_request_parts(req) ==
  LET method == req.method
      args == HashMap_from_pairs(req.query)
      headers == HeaderMap_from_lines(req.lines)
      url == <<req.path, req.query>>
      origin == req.origin
  IN  Extracted(CommonRequestParts_new(origin, url, method, headers, args))

(***************************************************************************)
(* The second extractor of each handler.                                   *)
(***************************************************************************)
\* AuthBasic: the Authorization header, scheme Basic, base64 of id[:password].
AuthBasic(req) ==
  LET h == HeaderMap_get(HeaderMap_from_lines(req.lines), "authorization")
      sp == IF h.some THEN split_once(h.val, 32) ELSE None
      raw == IF sp.some THEN base64_decode(sp.val.after) ELSE None
      decoded == IF raw.some THEN String_from_utf8(raw.val) ELSE None
      pair == IF decoded.some THEN split_once(decoded.val, 58) ELSE None
  IN  IF ~h.some THEN Rejected(Response(400, <<>>, Text("Authorization header is missing")))
      ELSE IF ~IsVisibleAscii(h.val)
           THEN Rejected(Response(400, <<>>, Text("Authorization header contains invalid characters")))
      ELSE IF ~sp.some \/ sp.val.before # BasicScheme
           THEN Rejected(Response(400, <<>>, Text("Authorization header must be for basic authentication")))
      ELSE IF ~decoded.some
           THEN Rejected(Response(400, <<>>, Text("Authorization header could not be decoded")))
      ELSE IF pair.some THEN Extracted(<<pair.val.before, Some(pair.val.after)>>)
      ELSE Extracted(<<decoded.val, None>>)

\* AuthBearer: the Authorization header, scheme Bearer, the token after it.
AuthBearer(req) ==
  LET h == HeaderMap_get(HeaderMap_from_lines(req.lines), "authorization")
      sp == IF h.some THEN split_once(h.val, 32) ELSE None
  IN  IF ~h.some THEN Rejected(Response(400, <<>>, Text("Authorization header is missing")))
      ELSE IF ~IsVisibleAscii(h.val)
           THEN Rejected(Response(400, <<>>, Text("Authorization header contains invalid characters")))
      ELSE IF sp.some /\ sp.val.before = BearerScheme THEN Extracted(sp.val.after)
      ELSE IF h.val = BearerScheme THEN Extracted(<<>>)
      ELSE Rejected(Response(400, <<>>, Text("Authorization header must be a bearer token")))

\* Json<Value>: the content type must be JSON and the body must parse.
Json_from_request(req) ==
  LET t == HeaderMap_get(HeaderMap_from_lines(req.lines), "content-type")
      v == from_slice(req.body.toks)
  IN  IF ~t.some \/ t.val # ApplicationJson
      THEN Rejected(Response(415, <<>>, Text("Expected request with Content-Type: application/json")))
      ELSE IF ~v.some
           THEN Rejected(Response(400, <<>>, Text("Failed to parse the request body as JSON")))
      ELSE Extracted(v.val)

\* Option<Json<Value>>: any rejection of the inner extractor becomes None.
Option_Json(req) ==
  LET r == Json_from_request(req)
  IN  Extracted(IF r.rejected THEN None ELSE Some(r.val))

\* Form<HashMap<String, String>>: the content type must be urlencoded.
Form_from_request(req) ==
  LET t == HeaderMap_get(HeaderMap_from_lines(req.lines), "content-type")
  IN  IF ~t.some \/ t.val # FormUrlencoded
      THEN Rejected(Response(415, <<>>, Text("Form requests must have Content-Type: application/x-www-form-urlencoded")))
      ELSE Extracted(HashMap_from_pairs(req.body.pairs))

\* Multipart: the content type must be multipart/form-data; no part is read yet.
Multipart_from_request(req) ==
  LET t == HeaderMap_get(HeaderMap_from_lines(req.lines), "content-type")
  IN  IF ~t.some \/ t.val # MultipartFormData
      THEN Rejected(Response(400, <<>>, Text("Invalid boundary for multipart/form-data request")))
      ELSE Extracted([parts |-> req.body.parts, broken |-> req.body.broken])

\* The handler's arguments, left to right; the first rejection is the response.
extract(req) ==
  LET h == HandlerOf(req)
      common == from_request_parts(req)
      second ==
        CASE h = "basic_method_handler" -> Extracted(None)
          [] h = "form_handler" -> Form_from_request(req)
          [] h = "post_json_handler" -> Option_Json(req)
          [] h = "post_file_handler" -> Multipart_from_request(req)
          [] h = "get_basic_auth_handler" -> AuthBasic(req)
          [] h = "get_bearer_auth_handler" -> AuthBearer(req)
  IN  IF common.rejected THEN common
      ELSE IF second.rejected THEN second
      ELSE Extracted([common_request_parts |-> common.val, second |-> second.val])

(***************************************************************************)
(* The handlers.  A handler returns a value for Json (Returned), an error  *)
(* response (Failed), or panics.                                           *)
(***************************************************************************)
Returned(payload) == [kind |-> "returned", payload |-> payload]
Failed(resp) == [kind |-> "failed", resp |-> resp]
Panicked == [kind |-> "panicked"]

basic_method_handler(common_request_parts) ==
  Returned([type |-> "CommonRequestParts", common_request_parts |-> common_request_parts])

form_handler(common_request_parts, form) ==
  Returned([type |-> "PostFormResponse", common_request_parts |-> common_request_parts,
            form |-> form])

post_json_handler(common_request_parts, json) ==
  LET data == IF json.some THEN to_string(json.val) ELSE <<>>
  IN  Returned([type |-> "PostJsonResponse", common_request_parts |-> common_request_parts,
                json |-> json, data |-> data])

\* The while loop over next_field(): every unwrap is a panic on its error.
RECURSIVE read_fields(_, _, _)
read_fields(parts, broken, data_map) ==
  IF parts = <<>> THEN (IF broken THEN Panic ELSE Ok(data_map))
  ELSE LET field == Head(parts)
           text == String_from_utf8(field.bytes)
       IN  IF ~field.name.some THEN Panic
           ELSE IF ~text.some THEN Panic
           ELSE read_fields(Tail(parts), broken, HashMap_insert(data_map, field.name.val, text.val))

post_file_handler(common_request_parts, multipart) ==
  LET data_map == read_fields(multipart.parts, multipart.broken, EmptyMap)
  IN  IF data_map.panicked THEN Panicked
      ELSE Returned([type |-> "PostFileResponse", common_request_parts |-> common_request_parts,
                     files |-> data_map.val])

Unauthorized == Response(401, <<<<"www-authenticate", FakeRealm>>>>, Text(""))

get_basic_auth_handler(common_request_parts, auth) ==
  LET id == auth[1]
      password == auth[2]
  IN  IF password.some
      THEN IF password.val = Passwd
           THEN Returned([type |-> "GetBasicAuthResponse",
                          common_request_parts |-> common_request_parts,
                          authenticated |-> TRUE, user |-> id])
           ELSE Failed(Unauthorized)
      ELSE Failed(Unauthorized)

get_bearer_auth_handler(common_request_parts, token) ==
  Returned([type |-> "GetBearerAuthResponse", common_request_parts |-> common_request_parts,
            authenticated |-> TRUE, token |-> token])

handle(req, args) ==
  LET h == HandlerOf(req)
      c == args.common_request_parts
  IN  CASE h = "basic_method_handler" -> basic_method_handler(c)
        [] h = "form_handler" -> form_handler(c, args.second)
        [] h = "post_json_handler" -> post_json_handler(c, args.second)
        [] h = "post_file_handler" -> post_file_handler(c, args.second)
        [] h = "get_basic_auth_handler" -> get_basic_auth_handler(c, args.second)
        [] h = "get_bearer_auth_handler" -> get_bearer_auth_handler(c, args.second)

(***************************************************************************)
(* #[derive(Serialize)]: the fields in declaration order, a struct field   *)
(* as a nested object under the field's name.  A HashMap is written in its *)
(* iteration order: argsOrder for args, mapOrder for form or files.        *)
(***************************************************************************)
Serialize_CommonRequestParts(c, argsOrder) ==
  LET headers == MyHeaderMap_serialize(c.headers)
  IN  IF headers.panicked THEN Panic
      ELSE Ok(JObj(<< <<"method", JStr(c.method)>>,
                     <<"args", HashMap_serialize(c.args, argsOrder)>>,
                     <<"headers", headers.val>>,
                     <<"url", JStr(c.url)>>,
                     <<"origin", JStr(c.origin)>> >>))

SecondMap(p) ==
  IF p.type = "PostFormResponse" THEN p.form
  ELSE IF p.type = "PostFileResponse" THEN p.files
  ELSE EmptyMap

Serialize(p, argsOrder, mapOrder) ==
  LET c == Serialize_CommonRequestParts(p.common_request_parts, argsOrder)
      nested == <<"common_request_parts", c.val>>
  IN  IF c.panicked THEN Panic
      ELSE CASE p.type = "CommonRequestParts" -> c
             [] p.type = "GetBasicAuthResponse" ->
                  Ok(JObj(<<nested, <<"authenticated", JBool(p.authenticated)>>,
                            <<"user", JStr(p.user)>> >>))
             [] p.type = "GetBearerAuthResponse" ->
                  Ok(JObj(<<nested, <<"authenticated", JBool(p.authenticated)>>,
                            <<"token", JStr(p.token)>> >>))
             [] p.type = "PostFormResponse" ->
                  Ok(JObj(<<nested, <<"form", HashMap_serialize(p.form, mapOrder)>> >>))
             [] p.type = "PostJsonResponse" ->
                  Ok(JObj(<<nested, <<"json", IF p.json.some THEN p.json.val ELSE JNull>>,
                            <<"data", JStr(p.data)>> >>))
             [] p.type = "PostFileResponse" ->
                  Ok(JObj(<<nested, <<"files", HashMap_serialize(p.files, mapOrder)>> >>))

\* Json<T>::into_response.
Json_into_response(p, argsOrder, mapOrder) ==
  LET body == Serialize(p, argsOrder, mapOrder)
  IN  IF body.panicked THEN Panic
      ELSE Ok(Response(200, <<<<"content-type", ApplicationJson>>>>, body.val))

(***************************************************************************)
(* The server: axum::serve runs one task per connection.  A connection is  *)
(* idle, or holds one request on its way through the extractors, the       *)
(* handler and the response; nothing else is kept between requests.        *)
(***************************************************************************)
Conns == {"c1", "c2"}
Nil == [nil |-> TRUE]
NotRun == [kind |-> "none"]
Idle == [pc |-> "idle", req |-> Nil, args |-> Nil, out |-> NotRun, resp |-> Nil]

WideHeaderLists == HeaderLists(Wide)
NarrowHeaderLists == HeaderLists(Narrow)

\* A panic that takes the whole process down: every connection in flight is
\* dropped and nothing is accepted any more.
process_aborted(c) ==
  [ conn |-> [d \in Conns |->
                IF conn[d].pc = "idle" THEN conn[d]
                ELSE [conn[d] EXCEPT !.pc = "aborted", !.resp = NoResponse]],
    listening |-> FALSE ]
\* A panic unwinds the task of its connection, which is dropped with no response;
\* the runtime catches it at the task boundary, and the other tasks run on.
task_panicked(c) ==
  [ conn |-> [conn EXCEPT ![c] = [@ EXCEPT !.pc = "aborted", !.resp = NoResponse]],
    listening |-> listening ]

Init ==
  /\ conn = [c \in Conns |-> Idle]
  /\ listening = TRUE
  /\ memo = [set |-> FALSE, req |-> Nil, resp |-> Nil]

\* A request of U arrives on connection c and is routed.
Accept(c, U, lists) ==
  /\ listening
  /\ conn[c].pc = "idle"
  /\ \E r \in Routes, q \in U.queries, h \in lists :
       \E i \in RouteInputs(r.handler, U) :
         conn' = [conn EXCEPT ![c] = [Idle EXCEPT !.pc = "extract", !.req = Request(r, q, h, i)]]
  /\ UNCHANGED <<listening, memo>>

Extract(c) ==
  /\ conn[c].pc = "extract"
  /\ LET e == extract(conn[c].req)
     IN  conn' = [conn EXCEPT ![c] =
                    IF e.rejected THEN [@ EXCEPT !.pc = "done", !.resp = e.resp]
                    ELSE [@ EXCEPT !.pc = "handle", !.args = e.val]]
  /\ UNCHANGED <<listening, memo>>

Handle(c) ==
  /\ conn[c].pc = "handle"
  /\ LET h == handle(conn[c].req, conn[c].args)
         after == IF h.kind = "panicked" THEN task_panicked(c)
                  ELSE [ conn |-> [conn EXCEPT ![c] =
                                     IF h.kind = "failed"
                                     THEN [@ EXCEPT !.pc = "done", !.out = h, !.resp = h.resp]
                                     ELSE [@ EXCEPT !.pc = "respond", !.out = h]],
                         listening |-> listening ]
     IN  /\ conn' = [after.conn EXCEPT ![c].out = h]
         /\ listening' = after.listening
  /\ UNCHANGED memo

Respond(c) ==
  /\ conn[c].pc = "respond"
  /\ LET p == conn[c].out.payload
     IN  \E argsOrder \in HashMap_iter_orders(p.common_request_parts.args),
            mapOrder \in HashMap_iter_orders(SecondMap(p)) :
           LET r == Json_into_response(p, argsOrder, mapOrder)
               after == IF r.panicked THEN task_panicked(c)
                        ELSE [ conn |-> [conn EXCEPT ![c] = [@ EXCEPT !.pc = "done", !.resp = r.val]],
                               listening |-> listening ]
           IN  /\ conn' = after.conn
               /\ listening' = after.listening
  /\ UNCHANGED memo

Finished(c) == conn[c].pc \in {"done", "aborted"}

Close(c) ==
  /\ Finished(c)
  /\ conn' = [conn EXCEPT ![c] = Idle]
  /\ UNCHANGED <<listening, memo>>

\* An observer's note of one request and what came back for it.
Remember(c) ==
  /\ Finished(c)
  /\ ~memo.set
  /\ memo' = [set |-> TRUE, req |-> conn[c].req, resp |-> conn[c].resp]
  /\ UNCHANGED <<conn, listening>>

\* One connection, every case of every input.
Next ==
  \/ Accept("c1", Wide, WideHeaderLists)
  \/ Extract("c1")
  \/ Handle("c1")
  \/ Respond("c1")
  \/ Close("c1")

Spec == Init /\ [][Next]_vars

\* One connection serving request after request, one response noted.
NextRepeat ==
  \/ Accept("c1", Narrow, NarrowHeaderLists)
  \/ Extract("c1")
  \/ Handle("c1")
  \/ Respond("c1")
  \/ Close("c1")
  \/ Remember("c1")

SpecRepeat == Init /\ [][NextRepeat]_vars

\* Connections served concurrently, their steps interleaved in any order.
NextServe ==
  \E c \in Conns :
    \/ Accept(c, Narrow, NarrowHeaderLists)
    \/ Extract(c)
    \/ Handle(c)
    \/ Respond(c)
    \/ Close(c)

SpecServe == Init /\ [][NextServe]_vars

(***************************************************************************)
(* What the claims speak of.                                               *)
(***************************************************************************)
Req(c) == conn[c].req
Resp(c) == conn[c].resp
OnPath(c, path) == Finished(c) /\ Req(c).path = path
Success(c) == Resp(c).sent /\ Resp(c).status = 200
Challenged(c) ==
  /\ Resp(c).sent
  /\ Resp(c).status = 401
  /\ \E i \in 1..Len(Resp(c).headers) : Resp(c).headers[i] = <<"www-authenticate", FakeRealm>>

\* The snapshot object of a success response: the body itself, or the one nested in it.
Snapshot(body) ==
  IF "common_request_parts" \in Keys(body) THEN Field(body, "common_request_parts") ELSE body

ValuesOf(lines, name) ==
  LET under == SelectSeq(lines, LAMBDA l : l.name = name)
  IN  [i \in 1..Len(under) |-> under[i].value]
EmittedUnder(obj, name) ==
  LET under == SelectSeq(obj.v, LAMBDA e : e[1] = name)
  IN  [i \in 1..Len(under) |-> under[i][2].v]
Names(lines) == {lines[i].name : i \in 1..Len(lines)}

\* The responses a request can get when it is the only one served.
ServedAlone(req) ==
  LET e == extract(req)
      h == handle(req, e.val)
      p == h.payload
  IN  IF e.rejected THEN {e.resp}
      ELSE IF h.kind = "failed" THEN {h.resp}
      ELSE IF h.kind = "panicked" THEN {NoResponse}
      ELSE { LET r == Json_into_response(p, o[1], o[2])
             IN  IF r.panicked THEN NoResponse ELSE r.val :
               o \in HashMap_iter_orders(p.common_request_parts.args)
                      \X HashMap_iter_orders(SecondMap(p)) }

AllText(lines) == \A i \in 1..Len(lines) : IsVisibleAscii(lines[i].value)

\* C1: whenever a handler has returned its value for a request (taken here with
\* header values that are all text) and the request is finished, the response was
\* written, and its headers object holds, under every header name received,
\* exactly the values received under that name, in order (so n entries for a name
\* received n times, n = 3 included), and as many entries as header lines received.
C1_HeadersCountForCount ==
  \A c \in Conns :
    (Finished(c) /\ conn[c].out.kind = "returned" /\ AllText(Req(c).lines)) =>
      /\ Success(c)
      /\ LET headers == Field(Snapshot(Resp(c).body), "headers")
         IN  /\ \A n \in Names(Req(c).lines) :
                   EmittedUnder(headers, n) = ValuesOf(Req(c).lines, n)
             /\ Len(headers.v) = Len(Req(c).lines)

\* C2: a finished request to the Basic-auth route that carries Basic credentials
\* (id, password) has 200 with authenticated true and user = id when the password is
\* "passwd", and 401 with the challenge header when it is another password.
C2_BasicByPassword ==
  \A c \in Conns :
    LET a == AuthBasic(Req(c))
    IN  (OnPath(c, "/basic-auth/user/passwd") /\ ~a.rejected /\ a.val[2].some) =>
          IF a.val[2].val = Passwd
          THEN /\ Success(c)
               /\ Field(Resp(c).body, "authenticated") = JBool(TRUE)
               /\ Field(Resp(c).body, "user") = JStr(a.val[1])
          ELSE Challenged(c)

\* C3: a finished request to the Basic-auth route with no Authorization header, or
\* with Basic credentials that have no password, has 401 with the challenge header;
\* and every finished request on the route is either authenticated (200) or
\* challenged (401 with the header).
C3_BasicAbsentChallenged ==
  \A c \in Conns :
    LET a == AuthBasic(Req(c))
        absent == \/ "authorization" \notin Names(Req(c).lines)
                  \/ (~a.rejected /\ ~a.val[2].some)
    IN  OnPath(c, "/basic-auth/user/passwd") =>
          /\ absent => Challenged(c)
          /\ Challenged(c) \/ (Success(c) /\ Field(Resp(c).body, "authenticated") = JBool(TRUE))

\* C4: a finished POST to /post/json declared application/json whose body is valid
\* JSON with value v has a response with json = v and data = the canonical text of
\* v, which parses back to v; with no body, json is null and data is empty.
C4_JsonRoundTrip ==
  \A c \in Conns :
    LET v == from_slice(Req(c).body.toks)
        declared == TypeLine(ApplicationJson)[1] \in {Req(c).lines[i] : i \in 1..Len(Req(c).lines)}
    IN  OnPath(c, "/post/json") =>
          /\ (declared /\ Req(c).body.kind = "text" /\ v.some) =>
               /\ Success(c)
               /\ Field(Resp(c).body, "json") = v.val
               /\ Field(Resp(c).body, "data") = JStr(to_string(v.val))
               /\ from_slice(Field(Resp(c).body, "data").v) = v
          /\ Req(c).body.kind = "none" =>
               /\ Success(c)
               /\ Field(Resp(c).body, "json") = JNull
               /\ Field(Resp(c).body, "data") = JStr(<<>>)

\* C5: a finished POST to /post/json whose body is not valid JSON is never answered
\* with a success response carrying json and data.
C5_BadJsonFails ==
  \A c \in Conns :
    (OnPath(c, "/post/json") /\ Req(c).body.kind = "text" /\ ~from_slice(Req(c).body.toks).some) =>
      ~(Success(c) /\ {"json", "data"} \subseteq Keys(Resp(c).body))

\* C6: a finished POST to /post/file with a part that has no name or is not UTF-8,
\* or with a broken multipart stream, was answered, with a 4xx response.
C6_BadMultipartAnswered ==
  \A c \in Conns :
    LET parts == Req(c).body.parts
        bad == \/ Req(c).body.broken
               \/ \E i \in 1..Len(parts) : ~parts[i].name.some \/ ~ValidUtf8(parts[i].bytes)
    IN  (OnPath(c, "/post/file") /\ bad) =>
          Resp(c).sent /\ Resp(c).status >= 400 /\ Resp(c).status < 500

\* C7: a finished request equal to the request noted earlier has the very response
\* noted for it, the order of the entries of args, form and files included.
C7_RepeatIdentical ==
  \A c \in Conns :
    (memo.set /\ Finished(c) /\ Req(c) = memo.req) => Resp(c) = memo.resp

\* C8: the process keeps listening, and every finished request, whatever the other
\* connections did meanwhile (panics included), has a response it can get when it is
\* served alone; a connection not yet finished holds what its own request yields.
C8_ErrorsAreLocal ==
  /\ listening
  /\ \A c \in Conns :
       /\ Finished(c) => Resp(c) \in ServedAlone(Req(c))
       /\ conn[c].pc = "handle" => conn[c].args = extract(Req(c)).val
       /\ conn[c].pc = "respond" => conn[c].out = handle(Req(c), extract(Req(c)).val)

\* C8 witness: one connection's task has panicked while the other one's request
\* was answered 200.
C8_PanicBesideSuccess ==
  \E c, d \in Conns :
    /\ c # d
    /\ conn[c].pc = "aborted"
    /\ conn[d].pc = "done" /\ Success(d)

\* The fields a route adds to the snapshot fields.
ExtraFields(path) ==
  CASE path = "/post/json" -> {"json", "data"}
    [] path = "/post/form" -> {"form"}
    [] path = "/post/file" -> {"files"}
    [] path = "/basic-auth/user/passwd" -> {"authenticated", "user"}
    [] path = "/bearer" -> {"authenticated", "token"}
    [] OTHER -> {}

\* C9: the fields of a success response are exactly method, url, origin, args,
\* headers and the fields of its route (which are of one body variant or one auth
\* outcome only).
C9_ExactFields ==
  \A c \in Conns :
    (Finished(c) /\ Success(c)) =>
      Keys(Resp(c).body) = {"method", "url", "origin", "args", "headers"} \cup ExtraFields(Req(c).path)

\* C10: a finished GET to /bearer that carries a Bearer token, the empty one
\* included, has 200 with authenticated true and token = the token presented.
C10_BearerAlwaysAccepted ==
  \A c \in Conns :
    LET a == AuthBearer(Req(c))
    IN  (OnPath(c, "/bearer") /\ ~a.rejected) =>
          /\ Success(c)
          /\ Field(Resp(c).body, "authenticated") = JBool(TRUE)
          /\ Field(Resp(c).body, "token") = JStr(a.val)

(***************************************************************************)
(* Lemmas: what holds of the requests whose headers serialize.             *)
(***************************************************************************)
HeadersSerialize(c) == ~MyHeaderMap_serialize(HeaderMap_from_lines(Req(c).lines)).panicked

\* Every success response echoes the header lines count-for-count.
Lemma_EchoedWhenWritten ==
  \A c \in Conns :
    (Finished(c) /\ Success(c)) =>
      LET headers == Field(Snapshot(Resp(c).body), "headers")
      IN  /\ \A n \in Names(Req(c).lines) : EmittedUnder(headers, n) = ValuesOf(Req(c).lines, n)
          /\ Len(headers.v) = Len(Req(c).lines)

\* Basic credentials decide the response when the headers serialize.
Lemma_BasicWhenSerialized ==
  \A c \in Conns :
    LET a == AuthBasic(Req(c))
    IN  (OnPath(c, "/basic-auth/user/passwd") /\ HeadersSerialize(c) /\ ~a.rejected /\ a.val[2].some) =>
          IF a.val[2].val = Passwd
          THEN /\ Success(c)
               /\ Field(Resp(c).body, "authenticated") = JBool(TRUE)
               /\ Field(Resp(c).body, "user") = JStr(a.val[1])
          ELSE Challenged(c)

\* Valid JSON is echoed as json and data when the headers serialize.
Lemma_JsonWhenSerialized ==
  \A c \in Conns :
    LET v == from_slice(Req(c).body.toks)
        declared == TypeLine(ApplicationJson)[1] \in {Req(c).lines[i] : i \in 1..Len(Req(c).lines)}
    IN  (OnPath(c, "/post/json") /\ HeadersSerialize(c)) =>
          /\ (declared /\ Req(c).body.kind = "text" /\ v.some) =>
               /\ Success(c)
               /\ Field(Resp(c).body, "json") = v.val
               /\ Field(Resp(c).body, "data") = JStr(to_string(v.val))
               /\ from_slice(Field(Resp(c).body, "data").v) = v
          /\ Req(c).body.kind = "none" =>
               /\ Success(c)
               /\ Field(Resp(c).body, "json") = JNull
               /\ Field(Resp(c).body, "data") = JStr(<<>>)

\* Every Bearer token is accepted when the headers serialize.
Lemma_BearerWhenSerialized ==
  \A c \in Conns :
    LET a == AuthBearer(Req(c))
    IN  (OnPath(c, "/bearer") /\ HeadersSerialize(c) /\ ~a.rejected) =>
          /\ Success(c)
          /\ Field(Resp(c).body, "authenticated") = JBool(TRUE)
          /\ Field(Resp(c).body, "token") = JStr(a.val)

====
